---- MODULE Spec2Model ----
(***************************************************************************)
(* Model of the three scripts of the repository:                           *)
(*   org_admins_import.py                     (Admin Inviter)              *)
(*   scripts/devices/gateways/report_gateway_firmware.py (Firmware Reporter)*)
(*   scripts/devices/gateways/fix_gateway_backup_firmware.py (Backup Trigger)*)
(*                                                                         *)
(* Python values.  A dict is a record whose DOMAIN holds the keys that are *)
(* present; d.get(k) on an absent key is None.  A string whose characters  *)
(* matter (a model name, a typed answer, a version) is a sequence of       *)
(* one-character strings or of character codes; every other string is an   *)
(* opaque TLA+ string.  None is the marker below, never a real string of    *)
(* the inputs.                                                              *)
(***************************************************************************)
EXTENDS Integers, Sequences, FiniteSets, TLC

VARIABLES
    script,         \* which script this process runs
    pc,             \* position of the process in the script
    exited,         \* the process has terminated
    exit_code,      \* its exit code (meaningful once exited)
    raised,         \* an exception escaped to the top level (traceback, exit 1)
    output,         \* what was printed / sent to the console, as message tags
    logged_in,      \* APISESSION.login() has run
    api_calls,      \* the remote calls issued so far, in order
    argv,           \* sys.argv[1:]
    installed,      \* the installed mistapi version, or NotInstalled
    file,           \* the input CSV file: whether it can be read, and its rows
    pages,          \* the pages the listing API will return, linked by next
    answers,        \* what the user typed at the prompts so far
    SITE_ID,        \* Trigger: parsed option
    AUTO_APPROVE,   \* Trigger: parsed option
    SCOPE,          \* Reporter: parsed option
    SCOPE_ID,       \* Reporter: parsed option
    APPEND_DT,      \* Reporter: parsed option
    APPEND_TS,      \* Reporter: parsed option
    data,           \* Trigger: selected rows; Reporter: report rows
    gateways,       \* Trigger: candidates being processed; Reporter: device stats
    idx,            \* number of loop iterations completed
    log,            \* LOGGER lines "<message>: Success|Failure", in order
    steps_count,    \* PB.steps_count
    steps_total,    \* PB.steps_total
    phases,         \* Trigger: the phases of _start entered so far
    response,       \* Reporter: index of the page held in `response` (0: none)
    csv_out,        \* Reporter: the report file (written or not, header, rows)
    privileges      \* Inviter: the privileges given to every invite

procVars == <<script, pc, exited, exit_code, raised, output, logged_in, api_calls>>
envVars  == <<argv, installed, file, pages>>
optVars  == <<SITE_ID, AUTO_APPROVE, SCOPE, SCOPE_ID, APPEND_DT, APPEND_TS>>
runVars  == <<answers, data, gateways, idx, log, steps_count, steps_total, phases,
              response, csv_out>>
invVars  == <<privileges>>
vars == <<procVars, envVars, optVars, runVars, invVars>>

---------------------------------------------------------------------------
(* Bounds of the model *)
MaxArgs == 2
MaxRows == 3
MaxCand == 5
MaxPages == 3
MaxPageLen == 2
MaxDevs == 2
MaxInvRows == 3
MaxAsk == 2

---------------------------------------------------------------------------
(* Python values and helpers *)

None == "<None>"

\* d.get(k)
Get(d, k) == IF k \in DOMAIN d THEN d[k] ELSE None
\* d.get(k, default)
GetDefault(d, k, default) == IF k \in DOMAIN d THEN d[k] ELSE default
\* `not v` for a value that is None or an opaque string
Falsy(v) == v \in {None, ""}

\* `sub in s` for strings held as character sequences
Contains(s, sub) ==
    \E k \in 1..(Len(s) - Len(sub) + 1) : SubSeq(s, k, k + Len(sub) - 1) = sub

SeqsUpTo(S, n) == UNION {[1..k -> S] : k \in 0..n}
Range(s) == {s[k] : k \in DOMAIN s}

RECURSIVE Flatten(_)
Flatten(ss) == IF ss = <<>> THEN <<>> ELSE Head(ss) \o Flatten(Tail(ss))

\* str.lower() on the characters the inputs use
UpperCase ==
    <<"A", "B", "C", "D", "E", "F", "G", "H", "I", "J", "K", "L", "M",
      "N", "O", "P", "Q", "R", "S", "T", "U", "V", "W", "X", "Y", "Z">>
LowerCase ==
    <<"a", "b", "c", "d", "e", "f", "g", "h", "i", "j", "k", "l", "m",
      "n", "o", "p", "q", "r", "s", "t", "u", "v", "w", "x", "y", "z">>
LowerChar(c) ==
    IF \E k \in DOMAIN UpperCase : UpperCase[k] = c
    THEN LowerCase[CHOOSE k \in DOMAIN UpperCase : UpperCase[k] = c]
    ELSE c
Lower(s) == [k \in DOMAIN s |-> LowerChar(s[k])]

---------------------------------------------------------------------------
(* The environment of a run *)

\* One element of sys.argv[1:] is the sequence of its characters; Str gives
\* the Python string of a sequence of characters.
RECURSIVE Str(_)
Str(chars) == IF chars = <<>> THEN "" ELSE Head(chars) \o Str(Tail(chars))

\* s.startswith(p) on character sequences
StartsWith(s, p) == Len(p) <= Len(s) /\ SubSeq(s, 1, Len(p)) = p

TriggerTokens ==
    { <<"-", "h">>, <<"-", "s">>, <<"S", "1">>,
      <<"-", "-", "s", "i", "t", "e", "_", "i", "d">>,
      <<"-", "-", "s", "i", "t", "e", "_", "i", "d", "=", "S", "1">>,
      <<"-", "-", "a", "u", "t", "o", "-", "a", "p", "p", "r", "o", "v", "e">>,
      <<"-", "-", "a", "u", "t", "o">>,
      <<"-", "-", "b", "o", "g", "u", "s">>,
      <<"-", "h", "x">>, <<"-", "-">> }

ReporterTokens ==
    { <<"-", "h">>, <<"-", "o", "O", "1">>, <<"-", "s", "S", "1">>,
      <<"-", "-", "s", "i", "t", "e", "_", "i", "d">>,
      <<"-", "-", "s", "i", "t", "e", "_", "i", "d", "=", "S", "1">>,
      <<"-", "-", "o", "r", "g", "_", "i", "d", "=", "O", "1">>,
      <<"-", "-", "o", "r", "g", "=", "O", "1">>,
      <<"-", "d">>, <<"-", "t">>, <<"-", "d", "t">>,
      <<"-", "-", "b", "o", "g", "u", "s">>,
      <<"-", "s">>, <<"S", "1">>, <<"-", "-">> }

\* mistapi.__version__ as (major, minor, patch); the empty tuple when
\* `import mistapi` fails
NotInstalled == <<>>
Versions == { <<0, 9, 0>>, <<0, 44, 0>>, <<0, 53, 0>>, <<0, 100, 0>> }

\* The rows csv.DictReader yields for the report file.  A key is absent from a
\* row when the line is shorter than the header (DictReader fills None).
Row(model, site, need, dev) ==
    [module_model |-> model, cluster_site_id |-> site,
     module_need_snapshot |-> need, cluster_device_id |-> dev]
SRX300 == <<"S", "R", "X", "3">>
vSRX == <<"v", "S", "R", "X">>
EX4 == <<"E", "X", "4">>
SR4 == <<"S", "R", "4">>

---------------------------------------------------------------------------
(* getopt.getopt(args, shortopts, longopts) of the standard library.         *)
(* shortopts is the option string as characters, longopts the list of the    *)
(* long option names as characters ("=" last when the option takes an        *)
(* argument).  The result is the error flag (GetoptError was raised), the    *)
(* (option, argument) pairs as Python strings, and the remaining arguments.  *)

GetoptError == [error |-> TRUE, opts |-> <<>>, args |-> <<>>]

\* short_has_arg: the first place of the letter in shortopts decides
short_has_arg(opt, shortopts) ==
    LET found == {i \in DOMAIN shortopts : opt = shortopts[i] /\ shortopts[i] # ":"}
        i == CHOOSE j \in found : \A k \in found : j <= k
    IN  IF found = {} THEN [error |-> TRUE, has_arg |-> FALSE]
        ELSE [error |-> FALSE,
              has_arg |-> i < Len(shortopts) /\ shortopts[i + 1] = ":"]

\* do_shorts: every character after the dash is an option, until one that
\* takes an argument, whose argument is the rest of the element or, when
\* nothing is left, the next element
RECURSIVE do_shorts(_, _, _, _)
do_shorts(opts, optstring, shortopts, args) ==
    IF optstring = <<>> THEN [error |-> FALSE, opts |-> opts, args |-> args]
    ELSE LET opt == Head(optstring)
             rest == Tail(optstring)
             has == short_has_arg(opt, shortopts)
         IN  IF has.error THEN GetoptError
             ELSE IF has.has_arg
                  THEN IF rest = <<>>
                       THEN IF args = <<>> THEN GetoptError
                            ELSE [error |-> FALSE,
                                  opts |-> Append(opts, <<"-" \o opt, Str(Head(args))>>),
                                  args |-> Tail(args)]
                       ELSE [error |-> FALSE,
                             opts |-> Append(opts, <<"-" \o opt, Str(rest)>>),
                             args |-> args]
                  ELSE do_shorts(Append(opts, <<"-" \o opt, "">>), rest, shortopts, args)

\* long_has_args: an exact name, or else the only name the text is a prefix of
long_has_args(opt, longopts) ==
    LET possibilities == SelectSeq(longopts, LAMBDA o : StartsWith(o, opt))
        unique_match == possibilities[1]
        has_arg == unique_match # <<>> /\ unique_match[Len(unique_match)] = "="
    IN  IF possibilities = <<>> THEN [error |-> TRUE, has_arg |-> FALSE, opt |-> opt]
        ELSE IF opt \in Range(possibilities)
             THEN [error |-> FALSE, has_arg |-> FALSE, opt |-> opt]
        ELSE IF Append(opt, "=") \in Range(possibilities)
             THEN [error |-> FALSE, has_arg |-> TRUE, opt |-> opt]
        ELSE IF Len(possibilities) > 1
             THEN [error |-> TRUE, has_arg |-> FALSE, opt |-> opt]
        ELSE [error |-> FALSE, has_arg |-> has_arg,
              opt |-> IF has_arg THEN SubSeq(unique_match, 1, Len(unique_match) - 1)
                      ELSE unique_match]

\* do_longs: the text after the two dashes, cut at its first "="
do_longs(opts, text, longopts, args) ==
    LET eqs == {i \in DOMAIN text : text[i] = "="}
        i == CHOOSE j \in eqs : \A k \in eqs : j <= k
        given == eqs # {}
        name == IF given THEN SubSeq(text, 1, i - 1) ELSE text
        optarg == IF given THEN SubSeq(text, i + 1, Len(text)) ELSE <<>>
        has == long_has_args(name, longopts)
    IN  IF has.error THEN GetoptError
        ELSE IF has.has_arg /\ ~given
             THEN IF args = <<>> THEN GetoptError
                  ELSE [error |-> FALSE,
                        opts |-> Append(opts, <<"--" \o Str(has.opt), Str(Head(args))>>),
                        args |-> Tail(args)]
        ELSE IF ~has.has_arg /\ given THEN GetoptError
        ELSE [error |-> FALSE,
              opts |-> Append(opts, <<"--" \o Str(has.opt), Str(optarg)>>),
              args |-> args]

\* the loop of getopt: it stops at the first element that is no option, and
\* after the element "--"
RECURSIVE do_getopt(_, _, _, _)
do_getopt(args, shortopts, longopts, opts) ==
    IF args = <<>> \/ ~StartsWith(Head(args), <<"-">>) \/ Head(args) = <<"-">>
    THEN [error |-> FALSE, opts |-> opts, args |-> args]
    ELSE IF Head(args) = <<"-", "-">>
         THEN [error |-> FALSE, opts |-> opts, args |-> Tail(args)]
    ELSE LET done == IF StartsWith(Head(args), <<"-", "-">>)
                     THEN do_longs(opts, SubSeq(Head(args), 3, Len(Head(args))),
                                   longopts, Tail(args))
                     ELSE do_shorts(opts, Tail(Head(args)), shortopts, Tail(args))
         IN  IF done.error THEN GetoptError
             ELSE do_getopt(done.args, shortopts, longopts, done.opts)

getopt(args, shortopts, longopts) == do_getopt(args, shortopts, longopts, <<>>)

\* "hs:f:e:l:", ["help", "site_id", "in_file=", "auto-approve", "env=", "log_file="]
TriggerShortOpts == <<"h", "s", ":", "f", ":", "e", ":", "l", ":">>
TriggerLongOpts ==
    << <<"h", "e", "l", "p">>, <<"s", "i", "t", "e", "_", "i", "d">>,
       <<"i", "n", "_", "f", "i", "l", "e", "=">>,
       <<"a", "u", "t", "o", "-", "a", "p", "p", "r", "o", "v", "e">>,
       <<"e", "n", "v", "=">>, <<"l", "o", "g", "_", "f", "i", "l", "e", "=">> >>

\* "ho:s:f:e:l:td", ["help", "org_id=", "site_id", "out_file=", "env=",
\*                   "log_file=", "datetime", "timestamp"]
ReporterShortOpts ==
    <<"h", "o", ":", "s", ":", "f", ":", "e", ":", "l", ":", "t", "d">>
ReporterLongOpts ==
    << <<"h", "e", "l", "p">>, <<"o", "r", "g", "_", "i", "d", "=">>,
       <<"s", "i", "t", "e", "_", "i", "d">>,
       <<"o", "u", "t", "_", "f", "i", "l", "e", "=">>, <<"e", "n", "v", "=">>,
       <<"l", "o", "g", "_", "f", "i", "l", "e", "=">>,
       <<"d", "a", "t", "e", "t", "i", "m", "e">>,
       <<"t", "i", "m", "e", "s", "t", "a", "m", "p">> >>

\* `o in ["-x", "--long"]`
OptIs(o, short, long) == o = "-" \o short \/ o = "--" \o long

\* The Trigger's option loop.  usage() exits, so the loop stops at -h.
RECURSIVE TriggerOptions(_, _)
TriggerOptions(opts, st) ==
    IF opts = <<>> THEN st
    ELSE LET o == Head(opts)[1]
             a == Head(opts)[2]
         IN  IF OptIs(o, "h", "help") THEN [st EXCEPT !.usage = TRUE]
             ELSE IF OptIs(o, "s", "site_id")
                  THEN TriggerOptions(Tail(opts), [st EXCEPT !.SITE_ID = a])
             ELSE IF o = "--auto-approve"
                  THEN TriggerOptions(Tail(opts), [st EXCEPT !.AUTO_APPROVE = TRUE])
             ELSE TriggerOptions(Tail(opts), st)

\* Mutant of ScopeChosen: an earlier scope option is never noticed
ScopeChosenNever(scope) == FALSE

\* __main__, lines 421 and 426: `if SCOPE:`
ScopeChosen(scope) == scope # None

\* The Reporter's option loop.  usage(msg) exits, so the loop stops there.
RECURSIVE ReporterOptions(_, _)
ReporterOptions(opts, st) ==
    IF opts = <<>> THEN st
    ELSE LET o == Head(opts)[1]
             a == Head(opts)[2]
         IN  IF OptIs(o, "h", "help") THEN [st EXCEPT !.usage = TRUE]
             ELSE IF OptIs(o, "o", "org_id")
                  THEN IF ScopeChosen(st.SCOPE)
                       THEN [st EXCEPT !.usage = TRUE, !.error = TRUE]
                       ELSE ReporterOptions(Tail(opts),
                                [st EXCEPT !.SCOPE = "org", !.SCOPE_ID = a])
             ELSE IF OptIs(o, "s", "site_id")
                  THEN IF ScopeChosen(st.SCOPE)
                       THEN [st EXCEPT !.usage = TRUE, !.error = TRUE]
                       ELSE ReporterOptions(Tail(opts),
                                [st EXCEPT !.SCOPE = "site", !.SCOPE_ID = a])
             ELSE IF OptIs(o, "d", "datetime")
                  THEN IF st.APPEND_TS
                       THEN [st EXCEPT !.usage = TRUE, !.error = TRUE]
                       ELSE ReporterOptions(Tail(opts), [st EXCEPT !.APPEND_DT = TRUE])
             ELSE IF OptIs(o, "t", "timestamp")
                  THEN IF st.APPEND_DT
                       THEN [st EXCEPT !.usage = TRUE, !.error = TRUE]
                       ELSE ReporterOptions(Tail(opts), [st EXCEPT !.APPEND_TS = TRUE])
             ELSE ReporterOptions(Tail(opts), st)

---------------------------------------------------------------------------
(* Version strings and their comparison *)

\* str(n) as character codes
RECURSIVE Digits(_)
Digits(n) == IF n < 10 THEN <<48 + n>> ELSE Digits(n \div 10) \o <<48 + (n % 10)>>

\* "<major>.<minor>.<patch>" as character codes
VersionStr(v) == Digits(v[1]) \o <<46>> \o Digits(v[2]) \o <<46>> \o Digits(v[3])

\* Python's a < b on two strings
RECURSIVE StrLess(_, _)
StrLess(a, b) ==
    IF b = <<>> THEN FALSE
    ELSE IF a = <<>> THEN TRUE
    ELSE IF Head(a) < Head(b) THEN TRUE
    ELSE IF Head(a) > Head(b) THEN FALSE
    ELSE StrLess(Tail(a), Tail(b))

\* MISTAPI_MIN_VERSION of each script
MISTAPI_MIN_VERSION(s) == IF s = "trigger" THEN <<0, 53, 0>> ELSE <<0, 44, 1>>

\* check_mistapi_version: TRUE when the script exits with code 2
VersionTooOld(s, version) ==
    StrLess(VersionStr(version), VersionStr(MISTAPI_MIN_VERSION(s)))

---------------------------------------------------------------------------
(* Process termination *)

\* sys.exit(code)
Exit(code) == exited' = TRUE /\ exit_code' = code /\ pc' = "exit"

Say(msg) == output' = Append(output, msg)

---------------------------------------------------------------------------
(* Backup Trigger: fix_gateway_backup_firmware.py *)


\* Mutant of Selects: the device ids kept so far are not consulted
SelectsNoDedup(row, site_id, device_ids) ==
    /\ Contains(row.module_model, <<"S", "R", "X">>)
    /\ ~(~Falsy(site_id) /\ Get(row, "cluster_site_id") # site_id)
    /\ Get(row, "module_need_snapshot") = "True"

\* _read_csv, lines 202-209: does the loop keep this row, given the device ids
\* kept so far?  (Only called on a row that has a module_model.)
Selects(row, site_id, device_ids) ==
    /\ Contains(row.module_model, <<"S", "R", "X">>)
    /\ ~(~Falsy(site_id) /\ Get(row, "cluster_site_id") # site_id)
    /\ Get(row, "module_need_snapshot") = "True"
    /\ Get(row, "cluster_device_id") \notin Range(device_ids)

\* _read_csv, the loop over the rows: ok is FALSE when a row raises
\* (`"SRX" in None` is a TypeError), which the except turns into sys.exit(1).
RECURSIVE ReadRows(_, _, _, _)
ReadRows(rows, site_id, selected, device_ids) ==
    IF rows = <<>> THEN [ok |-> TRUE, data |-> selected]
    ELSE LET row == Head(rows) IN
         IF "module_model" \notin DOMAIN row
         THEN [ok |-> FALSE, data |-> selected]
         ELSE IF Selects(row, site_id, device_ids)
              THEN ReadRows(Tail(rows), site_id, Append(selected, row),
                            Append(device_ids, Get(row, "cluster_device_id")))
              ELSE ReadRows(Tail(rows), site_id, selected, device_ids)

\* Mutant of _read_csv: an exception while reading the rows is swallowed and
\* the candidates collected so far are returned
_read_csvPartial(csv_file, site_id) ==
    IF ~csv_file.readable THEN [ok |-> FALSE, data |-> <<>>]
    ELSE [ok |-> TRUE, data |-> ReadRows(csv_file.rows, site_id, <<>>, <<>>).data]

\* _read_csv(csv_file, site_id)
_read_csv(csv_file, site_id) ==
    IF ~csv_file.readable THEN [ok |-> FALSE, data |-> <<>>]
    ELSE ReadRows(csv_file.rows, site_id, <<>>, <<>>)


\* Mutant of NothingToDo: the empty check is skipped
NothingToDoNever(d) == FALSE

\* _start, line 238: `if not data`
NothingToDo(d) == d = <<>>


\* Mutant of Approved: anything but "n" is taken as consent
ApprovedUnlessNo(r) == Lower(r) # <<"n">>

\* _request_approval, line 225: `r.lower() == "y"`
Approved(r) == Lower(r) = <<"y">>


\* Mutant of MissingIds: only None counts as missing, the empty string does not
MissingIdsNoneOnly(gateway) ==
    Get(gateway, "cluster_site_id") = None \/ Get(gateway, "cluster_device_id") = None

\* _process_gateways, lines 174-181: the row lacks a site id or a device id
MissingIds(gateway) ==
    Falsy(Get(gateway, "cluster_site_id")) \/ Falsy(Get(gateway, "cluster_device_id"))


\* Mutant of SnapshotResult: no try/except around the call
SnapshotResultUncaught(resp) ==
    IF resp.raised THEN "Raised"
    ELSE IF resp.status_code = 200 THEN "Success" ELSE "Failure"

\* Mutant of SnapshotResult: every 2xx status is a success
SnapshotResult2xx(resp) ==
    IF resp.raised THEN "Failure"
    ELSE IF resp.status_code \in 200..299 THEN "Success" ELSE "Failure"

\* _process_gateways, lines 182-190: what the try/except makes of the call
SnapshotResult(resp) ==
    IF resp.raised THEN "Failure"
    ELSE IF resp.status_code = 200 THEN "Success" ELSE "Failure"

\* What createSiteDeviceSnapshot can do: raise, or return a status code
Responses ==
    {[raised |-> TRUE, status_code |-> 0]}
    \cup {[raised |-> FALSE, status_code |-> c] : c \in {200, 201, 404}}

\* What the user can type at the prompt
Answers == { <<"y">>, <<"Y">>, <<"n">>, <<>>, <<"y", "e", "s">> }

\* import mistapi, lines 61-75
TriggerImport ==
    /\ script = "trigger" /\ pc = "import"
    /\ IF installed = NotInstalled
       THEN Say("critical: mistapi package is missing") /\ Exit(2)
       ELSE pc' = "getopt" /\ UNCHANGED <<exited, exit_code, output>>
    /\ UNCHANGED <<script, raised, logged_in, api_calls, invVars, envVars, optVars, runVars>>

\* __main__, lines 334-357: getopt and the option loop
TriggerGetopt ==
    /\ script = "trigger" /\ pc = "getopt"
    /\ LET parsed == getopt(argv, TriggerShortOpts, TriggerLongOpts)
           st == TriggerOptions(parsed.opts,
                    [usage |-> FALSE, SITE_ID |-> None, AUTO_APPROVE |-> FALSE])
       IN  IF parsed.error
           THEN /\ output' = output \o <<"error: GetoptError", "usage">>
                /\ Exit(0)
                /\ UNCHANGED <<SITE_ID, AUTO_APPROVE>>
           ELSE IF st.usage
           THEN /\ Say("usage") /\ Exit(0)
                /\ SITE_ID' = st.SITE_ID /\ AUTO_APPROVE' = st.AUTO_APPROVE
           ELSE /\ SITE_ID' = st.SITE_ID /\ AUTO_APPROVE' = st.AUTO_APPROVE
                /\ pc' = "check_version"
                /\ UNCHANGED <<exited, exit_code, output>>
    /\ UNCHANGED <<script, raised, logged_in, api_calls, invVars, envVars, runVars,
                   SCOPE, SCOPE_ID, APPEND_DT, APPEND_TS>>

\* check_mistapi_version, lines 304-327
TriggerCheckVersion ==
    /\ script = "trigger" /\ pc = "check_version"
    /\ IF VersionTooOld(script, installed)
       THEN Say("critical: mistapi package version") /\ Exit(2)
       ELSE pc' = "login" /\ UNCHANGED <<exited, exit_code, output>>
    /\ UNCHANGED <<script, raised, logged_in, api_calls, invVars, envVars, optVars, runVars>>

\* __main__, lines 364-365: APISESSION.login()
TriggerLogin ==
    /\ script = "trigger" /\ pc = "login"
    /\ logged_in' = TRUE
    /\ pc' = "start"
    /\ UNCHANGED <<script, exited, exit_code, raised, output, api_calls,
                   invVars, envVars, optVars, runVars>>

\* _start, lines 237-244, up to the prompt: _read_csv, the empty check and
\* the auto-approve branch
TriggerStart ==
    /\ script = "trigger" /\ pc = "start"
    /\ LET res == _read_csv(file, SITE_ID) IN
       IF ~res.ok
       THEN /\ log' = Append(log, [message |-> "Reading CSV Report", device |-> None,
                                 result |-> "Failure"])
            /\ phases' = Append(phases, "ReadCSV")
            /\ Exit(1)
            /\ UNCHANGED <<data, output>>
       ELSE /\ log' = Append(log, [message |-> "Reading CSV Report", device |-> None,
                                 result |-> "Success"])
            /\ data' = res.data
            /\ IF NothingToDo(res.data)
               THEN /\ Say("All the gateways are compliant... Exiting...")
                    /\ phases' = phases \o <<"ReadCSV", "Done">>
                    /\ Exit(0)
               ELSE IF AUTO_APPROVE
               THEN /\ Say("info: auto-approve parameter has been set to True")
                    /\ phases' = Append(phases, "ReadCSV")
                    /\ pc' = "process"
                    /\ UNCHANGED <<exited, exit_code>>
               ELSE /\ phases' = Append(phases, "ReadCSV")
                    /\ pc' = "approval"
                    /\ UNCHANGED <<exited, exit_code, output>>
    /\ UNCHANGED <<script, raised, logged_in, api_calls, invVars, envVars, optVars, answers,
                   gateways, idx, steps_count, steps_total, response, csv_out>>

\* _request_approval, lines 219-230
RequestApproval ==
    /\ script = "trigger" /\ pc = "approval"
    /\ \E r \in Answers :
          /\ answers' = Append(answers, r)
          /\ IF Approved(r)
             THEN /\ output' = output \o <<"List of gateways to process:",
                                           "Do you want to continue (y/N)? ">>
                  /\ phases' = Append(phases, "Confirm")
                  /\ pc' = "process"
                  /\ UNCHANGED <<exited, exit_code>>
             ELSE /\ output' = output \o <<"List of gateways to process:",
                                           "Do you want to continue (y/N)? ",
                                           "info: process stopped by the user. Exiting...">>
                  /\ phases' = phases \o <<"Confirm", "Done">>
                  /\ Exit(0)
    /\ UNCHANGED <<script, raised, logged_in, api_calls, invVars, envVars, optVars, data,
                   gateways, idx, log, steps_count, steps_total, response, csv_out>>

\* _start line 245 and _process_gateways lines 165-167: the call, with the
\* selected rows as its `gateways`
ProcessBegin ==
    /\ script = "trigger" /\ pc = "process"
    /\ gateways' = data
    /\ idx' = 0
    /\ steps_total' = Len(data)
    /\ phases' = Append(phases, "ProcessEach")
    /\ pc' = "process_loop"
    /\ UNCHANGED <<script, exited, exit_code, raised, output, logged_in, api_calls,
                   invVars, envVars, optVars, answers, data, log, steps_count, response, csv_out>>

\* _process_gateways, lines 168-190: one iteration of the loop
ProcessGateway ==
    /\ script = "trigger" /\ pc = "process_loop" /\ idx < Len(gateways)
    /\ LET gateway == gateways[idx + 1]
           site_id == Get(gateway, "cluster_site_id")
           device_id == Get(gateway, "cluster_device_id")
           message == "Processing device"
       IN  IF MissingIds(gateway)
           THEN /\ log' = Append(log, [message |-> message, device |-> device_id,
                                      result |-> "Failure"])
                /\ Say(IF Falsy(site_id) THEN "error: Missing site_id for device"
                                        ELSE "error: Missing device_id for device")
                /\ steps_count' = steps_count + 1
                /\ idx' = idx + 1
                /\ UNCHANGED <<api_calls, pc, exited, exit_code, raised>>
           ELSE \E resp \in Responses :
                LET result == SnapshotResult(resp) IN
                /\ api_calls' = Append(api_calls,
                       [api |-> "createSiteDeviceSnapshot", site_id |-> site_id,
                        device_id |-> device_id, resp |-> resp])
                /\ IF result \in {"Success", "Failure"}
                   THEN /\ log' = Append(log, [message |-> message, device |-> device_id,
                                              result |-> result])
                        /\ steps_count' = steps_count + 1
                        /\ idx' = idx + 1
                        /\ UNCHANGED <<pc, exited, exit_code, raised, output>>
                   ELSE \* an exception that leaves the loop ends the script
                        /\ raised' = TRUE
                        /\ Exit(1)
                        /\ UNCHANGED <<log, steps_count, idx, output>>
    /\ UNCHANGED <<script, logged_in, invVars, envVars, optVars, answers, data, gateways,
                   steps_total, phases, response, csv_out>>

\* _process_gateways returns and the script ends
ProcessEnd ==
    /\ script = "trigger" /\ pc = "process_loop" /\ idx = Len(gateways)
    /\ phases' = Append(phases, "Done")
    /\ Exit(0)
    /\ UNCHANGED <<script, raised, output, logged_in, api_calls, invVars, envVars, optVars,
                   answers, data, gateways, idx, log, steps_count, steps_total,
                   response, csv_out>>

---------------------------------------------------------------------------
(* Firmware Reporter: report_gateway_firmware.py *)

\* None in a field whose strings are character sequences
NoneChars == <<None>>

\* {} : the dict with no key
EmptyDict == [k \in {} |-> None]

\* _process_module, lines 128-141: the row appended for one module
_process_module(cluster_name, cluster_version, cluster_device_id, cluster_site_id, module) ==
    [cluster_name |-> cluster_name,
     cluster_version |-> cluster_version,
     cluster_device_id |-> cluster_device_id,
     cluster_site_id |-> cluster_site_id,
     module_serial |-> Get(module, "serial"),
     module_mac |-> Get(module, "mac"),
     module_model |-> GetDefault(module, "model", NoneChars),
     module_version |-> Get(module, "version"),
     module_backup_version |-> Get(module, "backup_version"),
     module_need_snapshot |-> Get(module, "version") # Get(module, "backup_version"),
     module_pending_version |-> Get(module, "pending_version"),
     module_need_reboot |-> GetDefault(module, "pending_version", "") # ""]

\* _process_gateways, lines 149-155: the rows of one device; ok is FALSE when
\* the body raises (`[][0]` on a module_stat that is present and empty)
ClusterRows(cluster) ==
    LET name == GetDefault(cluster, "name", NoneChars)
        version == Get(cluster, "version")
        device_id == Get(cluster, "id")
        site_id == Get(cluster, "site_id")
        stat == GetDefault(cluster, "module_stat", <<EmptyDict>>)
        stat2 == GetDefault(cluster, "module2_stat", <<>>)
    IN  IF stat = <<>> THEN [ok |-> FALSE, rows |-> <<>>]
        ELSE [ok |-> TRUE,
              rows |-> <<_process_module(name, version, device_id, site_id, stat[1])>>
                       \o (IF stat2 # <<>>
                           THEN <<_process_module(name, version, device_id, site_id,
                                                  stat2[1])>>
                           ELSE <<>>)]

\* _process_gateways(gateways), lines 143-159
RECURSIVE ReportRows(_, _)
ReportRows(clusters, rows) ==
    IF clusters = <<>> THEN [ok |-> TRUE, data |-> rows]
    ELSE LET r == ClusterRows(Head(clusters)) IN
         IF ~r.ok THEN [ok |-> FALSE, data |-> rows]
         ELSE ReportRows(Tail(clusters), rows \o r.rows)


\* Mutant of Accumulate: the new page replaces what was collected
AccumulateOverwrite(list, page_data) == page_data

\* lines 167 and 176: gateways = gateways + response.data
Accumulate(list, page_data) == list \o page_data

\* The keys of a report row, in the order _process_module inserts them
RowKeys ==
    <<"cluster_name", "cluster_version", "cluster_device_id", "cluster_site_id",
      "module_serial", "module_mac", "module_model", "module_version",
      "module_backup_version", "module_need_snapshot", "module_pending_version",
      "module_need_reboot">>

\* `for key in entry`: the keys of one row, in insertion order
RECURSIVE KeysOf(_, _)
KeysOf(entry, keys) ==
    IF keys = <<>> THEN <<>>
    ELSE IF Head(keys) \in DOMAIN entry
         THEN <<Head(keys)>> \o KeysOf(entry, Tail(keys))
         ELSE KeysOf(entry, Tail(keys))

\* _save_as_csv, lines 205-208: add the keys not seen yet
RECURSIVE AddKeys(_, _)
AddKeys(headers, keys) ==
    IF keys = <<>> THEN headers
    ELSE IF Head(keys) \in Range(headers)
         THEN AddKeys(headers, Tail(keys))
         ELSE AddKeys(Append(headers, Head(keys)), Tail(keys))

RECURSIVE Headers(_, _)
Headers(rows, headers) ==
    IF rows = <<>> THEN headers
    ELSE Headers(Tail(rows), AddKeys(headers, KeysOf(Head(rows), RowKeys)))

\* Text is a sequence of pieces; a piece is one character or a word none of
\* whose characters is special to the CSV format or to the comment filter
\* (`#`, the comma, the quote, the line ends).

\* str(value) as csv.writer writes it: None is the empty text, a bool is
\* "True" / "False"
CsvField(key, v) ==
    IF key \in {"module_need_snapshot", "module_need_reboot"}
    THEN (IF v THEN <<"True">> ELSE <<"False">>)
    ELSE IF key \in {"cluster_name", "module_model"}
    THEN (IF v = NoneChars THEN <<>> ELSE v)
    ELSE IF v \in {None, ""} THEN <<>> ELSE <<v>>

\* _save_as_csv, lines 219-223: the fields of one data line
CsvLine(entry, headers) ==
    [k \in DOMAIN headers |->
        IF headers[k] \in DOMAIN entry THEN CsvField(headers[k], entry[headers[k]])
        ELSE <<>>]

\* _save_as_csv, line 217: the single field of the first line
CommentLine(scope, scope_id) ==
    << <<"#", "Gateways Firmware Backup for", scope, scope_id>> >>

\* _save_as_csv, line 218: the header line
HeaderLine(headers) == [k \in DOMAIN headers |-> <<headers[k]>>]

\* Mutant of _save_as_csv: the header line is the key list of the first row
_save_as_csvFirstRowKeys(rows, scope, scope_id, append_dt, append_ts) ==
    LET headers == Headers(IF rows = <<>> THEN <<>> ELSE <<Head(rows)>>, <<>>) IN
    [written |-> TRUE,
     name |-> IF append_dt THEN "report_<datetime>.csv"
              ELSE IF append_ts THEN "report_<timestamp>.csv"
              ELSE "report.csv",
     text |-> <<CommentLine(scope, scope_id), HeaderLine(headers)>>
              \o [k \in DOMAIN rows |-> CsvLine(rows[k], headers)]]

\* _save_as_csv(data, scope, scope_id, csv_file, append_dt, append_ts): the
\* file it writes, as the sequence of its writerow calls
_save_as_csv(rows, scope, scope_id, append_dt, append_ts) ==
    LET headers == Headers(rows, <<>>) IN
    [written |-> TRUE,
     name |-> IF append_dt THEN "report_<datetime>.csv"
              ELSE IF append_ts THEN "report_<timestamp>.csv"
              ELSE "report.csv",
     text |-> <<CommentLine(scope, scope_id), HeaderLine(headers)>>
              \o [k \in DOMAIN rows |-> CsvLine(rows[k], headers)]]

NoReport == [written |-> FALSE, name |-> "", text |-> <<>>]

\* import mistapi, lines 70-84
ReporterImport ==
    /\ script = "reporter" /\ pc = "import"
    /\ IF installed = NotInstalled
       THEN Say("critical: mistapi package is missing") /\ Exit(2)
       ELSE pc' = "getopt" /\ UNCHANGED <<exited, exit_code, output>>
    /\ UNCHANGED <<script, raised, logged_in, api_calls, invVars, envVars, optVars, runVars>>

\* __main__, lines 408-448: getopt and the option loop
ReporterGetopt ==
    /\ script = "reporter" /\ pc = "getopt"
    /\ LET parsed == getopt(argv, ReporterShortOpts, ReporterLongOpts)
           st == ReporterOptions(parsed.opts,
                    [usage |-> FALSE, error |-> FALSE, SCOPE |-> None,
                     SCOPE_ID |-> None, APPEND_DT |-> FALSE, APPEND_TS |-> FALSE])
       IN  IF parsed.error
           THEN /\ output' = output \o <<"usage", "critical: GetoptError">>
                /\ Exit(0)
                /\ UNCHANGED <<SCOPE, SCOPE_ID, APPEND_DT, APPEND_TS>>
           ELSE IF st.usage
           THEN /\ output' = output \o (IF st.error
                                        THEN <<"usage", "critical: Invalid Parameters">>
                                        ELSE <<"usage">>)
                /\ Exit(0)
                /\ SCOPE' = st.SCOPE /\ SCOPE_ID' = st.SCOPE_ID
                /\ APPEND_DT' = st.APPEND_DT /\ APPEND_TS' = st.APPEND_TS
           ELSE /\ SCOPE' = st.SCOPE /\ SCOPE_ID' = st.SCOPE_ID
                /\ APPEND_DT' = st.APPEND_DT /\ APPEND_TS' = st.APPEND_TS
                /\ pc' = "check_version"
                /\ UNCHANGED <<exited, exit_code, output>>
    /\ UNCHANGED <<script, raised, logged_in, api_calls, invVars, envVars, runVars,
                   SITE_ID, AUTO_APPROVE>>

\* check_mistapi_version, lines 378-401
ReporterCheckVersion ==
    /\ script = "reporter" /\ pc = "check_version"
    /\ IF VersionTooOld(script, installed)
       THEN Say("critical: mistapi package version") /\ Exit(2)
       ELSE pc' = "login" /\ UNCHANGED <<exited, exit_code, output>>
    /\ UNCHANGED <<script, raised, logged_in, api_calls, invVars, envVars, optVars, runVars>>

\* __main__, lines 455-456: APISESSION.login()
ReporterLogin ==
    /\ script = "reporter" /\ pc = "login"
    /\ logged_in' = TRUE
    /\ pc' = "start"
    /\ UNCHANGED <<script, exited, exit_code, raised, output, api_calls,
                   invVars, envVars, optVars, runVars>>

\* What the user can type at the menu: an entry, q to quit, a number that is
\* no entry, something that is no number
MenuAnswers == { <<"0">>, <<"1">>, <<"q">>, <<"Q">>, <<"7">>, <<"x">> }

\* _start, lines 285-291: no scope given, so the menu and the org / site
\* selection decide it; _show_menu, lines 231-253: q or Q quits, an answer
\* that is no entry of the menu is reported and asked again
ReporterMenu ==
    /\ script = "reporter" /\ pc = "start" /\ Falsy(SCOPE)
    /\ \E choice \in MenuAnswers :
          /\ answers' = Append(answers, choice)
          /\ IF Lower(choice) = <<"q">>
             THEN Exit(0) /\ UNCHANGED <<SCOPE, SCOPE_ID, output>>
             ELSE IF choice \in {<<"0">>, <<"1">>}
             THEN /\ SCOPE' = (IF choice = <<"0">> THEN "org" ELSE "site")
                  /\ SCOPE_ID' = (IF choice = <<"0">> THEN "O1" ELSE "S1")
                  /\ pc' = "get_gateways"
                  /\ UNCHANGED <<exited, exit_code, output>>
             ELSE /\ Len(answers) < MaxAsk
                  /\ Say("error: Please enter a number")
                  /\ UNCHANGED <<SCOPE, SCOPE_ID, pc, exited, exit_code>>
    /\ UNCHANGED <<script, raised, logged_in, api_calls, invVars, envVars,
                   SITE_ID, AUTO_APPROVE, APPEND_DT, APPEND_TS, data, gateways, idx,
                   log, steps_count, steps_total, phases, response, csv_out>>

\* _start, line 285: the scope was given on the command line
ReporterScoped ==
    /\ script = "reporter" /\ pc = "start" /\ ~Falsy(SCOPE)
    /\ pc' = "get_gateways"
    /\ UNCHANGED <<script, exited, exit_code, raised, output, logged_in, api_calls,
                   invVars, envVars, optVars, runVars>>

\* _get_org_gateways, lines 162-164: the first page
OrgList ==
    /\ script = "reporter" /\ pc = "get_gateways" /\ SCOPE = "org"
    /\ api_calls' = Append(api_calls, [api |-> "listOrgDevicesStats", page |-> 1])
    /\ response' = 1
    /\ gateways' = pages[1].data
    /\ pc' = "org_next"
    /\ UNCHANGED <<script, exited, exit_code, raised, output, logged_in, invVars, envVars,
                   optVars, answers, data, idx, log, steps_count, steps_total, phases,
                   csv_out>>

\* _get_org_gateways, lines 165-168: `while response.next`, one turn or the return
OrgNext ==
    /\ script = "reporter" /\ pc = "org_next"
    /\ IF pages[response].next # 0
       THEN /\ api_calls' = Append(api_calls,
                                   [api |-> "get_next", page |-> pages[response].next])
            /\ response' = pages[response].next
            /\ gateways' = Accumulate(gateways, pages[pages[response].next].data)
            /\ pc' = pc
       ELSE /\ pc' = "process"
            /\ UNCHANGED <<api_calls, response, gateways>>
    /\ UNCHANGED <<script, exited, exit_code, raised, output, logged_in, invVars, envVars,
                   optVars, answers, data, idx, log, steps_count, steps_total, phases,
                   csv_out>>

\* _get_site_gateways, lines 171-173: the first page
SiteList ==
    /\ script = "reporter" /\ pc = "get_gateways" /\ SCOPE = "site"
    /\ api_calls' = Append(api_calls, [api |-> "listSiteDevicesStats", page |-> 1])
    /\ response' = 1
    /\ gateways' = pages[1].data
    /\ pc' = "site_next"
    /\ UNCHANGED <<script, exited, exit_code, raised, output, logged_in, invVars, envVars,
                   optVars, answers, data, idx, log, steps_count, steps_total, phases,
                   csv_out>>

\* _get_site_gateways, lines 174-177: `while response.next`, one turn or the return
SiteNext ==
    /\ script = "reporter" /\ pc = "site_next"
    /\ IF pages[response].next # 0
       THEN /\ api_calls' = Append(api_calls,
                                   [api |-> "get_next", page |-> pages[response].next])
            /\ response' = pages[response].next
            /\ gateways' = Accumulate(gateways, pages[pages[response].next].data)
            /\ pc' = pc
       ELSE /\ pc' = "process"
            /\ UNCHANGED <<api_calls, response, gateways>>
    /\ UNCHANGED <<script, exited, exit_code, raised, output, logged_in, invVars, envVars,
                   optVars, answers, data, idx, log, steps_count, steps_total, phases,
                   csv_out>>

\* _start, lines 299-306: process the devices and save the report; the script
\* then ends
ReporterProcess ==
    /\ script = "reporter" /\ pc = "process"
    /\ LET res == IF gateways # <<>> THEN ReportRows(gateways, <<>>)
                  ELSE [ok |-> TRUE, data |-> <<>>]
       IN  IF ~res.ok
           THEN /\ raised' = TRUE
                /\ Exit(1)
                /\ UNCHANGED <<data, csv_out, output>>
           ELSE /\ data' = res.data
                /\ IF res.data # <<>>
                   THEN /\ csv_out' = _save_as_csv(res.data, SCOPE, SCOPE_ID,
                                                   APPEND_DT, APPEND_TS)
                        /\ Say("report")
                   ELSE UNCHANGED <<csv_out, output>>
                /\ Exit(0)
                /\ UNCHANGED raised
    /\ UNCHANGED <<script, logged_in, api_calls, invVars, envVars, optVars, answers, gateways,
                   idx, log, steps_count, steps_total, phases, response>>

\* csv.writer quotes a field that holds a comma, a quote or a line end
NeedsQuote(text) == Range(text) \cap {",", "\"", "\n", "\r"} # {}

\* The characters csv.writer writes for one field: quoted when needed, with
\* every quote inside doubled
RECURSIVE DoubleQuotes(_)
DoubleQuotes(text) ==
    IF text = <<>> THEN <<>>
    ELSE (IF Head(text) = "\"" THEN <<"\"", "\"">> ELSE <<Head(text)>>)
         \o DoubleQuotes(Tail(text))

WriteField(text) ==
    IF NeedsQuote(text) THEN <<"\"">> \o DoubleQuotes(text) \o <<"\"">> ELSE text

\* The characters of one writerow call: the fields joined by commas and ended
\* by "\r\n"; a row of one empty field is written as `""`
RECURSIVE JoinFields(_)
JoinFields(fields) ==
    IF fields = <<>> THEN <<>>
    ELSE IF Len(fields) = 1 THEN WriteField(fields[1])
    ELSE WriteField(Head(fields)) \o <<",">> \o JoinFields(Tail(fields))

WriteRow(fields) ==
    (IF fields = << <<>> >> THEN <<"\"", "\"">> ELSE JoinFields(fields))
    \o <<"\r", "\n">>

\* The characters of the file written by a sequence of writerow calls
FileChars(text) == Flatten([k \in DOMAIN text |-> WriteRow(text[k])])

\* Trigger, _read_csv lines 199-200: iterating the file opened with
\* newline='' yields its physical lines, each ended by "\n", "\r" or "\r\n"
LineEnds(chars) ==
    { i \in DOMAIN chars :
        \/ chars[i] = "\n"
        \/ chars[i] = "\r" /\ ~(i < Len(chars) /\ chars[i + 1] = "\n")
        \/ i = Len(chars) }

SplitLines(chars) ==
    LET ends == LineEnds(chars)
        End(k) == CHOOSE i \in ends : Cardinality({j \in ends : j < i}) = k - 1
    IN  [k \in 1..Cardinality(ends) |->
            SubSeq(chars, IF k = 1 THEN 1 ELSE End(k - 1) + 1, End(k))]

\* Trigger, _read_csv line 200: `row[0] != '#'` is false, i.e. the physical
\* line is dropped, when its first character is `#`
StartsWithHash(line) == line[1] = "#"

\* csv.reader (default dialect) as the state machine of the csv module: one
\* step per character of a line, then one step for the end of the line
EOL == "<EOL>"

SaveField(ps) == [ps EXCEPT !.fields = Append(@, ps.field), !.field = <<>>]

AddChar(ps, c) == [ps EXCEPT !.field = Append(@, c)]

EndField(ps, c) ==
    [SaveField(ps) EXCEPT !.state = IF c = EOL THEN "START_RECORD" ELSE "EAT_CRNL"]

ParseChar(ps, c) ==
    LET nl == c \in {"\n", "\r"} IN
    IF ps.state = "START_RECORD" /\ c = EOL THEN ps
    ELSE IF ps.state = "START_RECORD" /\ nl THEN [ps EXCEPT !.state = "EAT_CRNL"]
    ELSE IF ps.state \in {"START_RECORD", "START_FIELD"}
    THEN IF nl \/ c = EOL THEN EndField(ps, c)
         ELSE IF c = "\"" THEN [ps EXCEPT !.state = "IN_QUOTED_FIELD"]
         ELSE IF c = "," THEN [SaveField(ps) EXCEPT !.state = "START_FIELD"]
         ELSE [AddChar(ps, c) EXCEPT !.state = "IN_FIELD"]
    ELSE IF ps.state = "IN_FIELD"
    THEN IF nl \/ c = EOL THEN EndField(ps, c)
         ELSE IF c = "," THEN [SaveField(ps) EXCEPT !.state = "START_FIELD"]
         ELSE AddChar(ps, c)
    ELSE IF ps.state = "IN_QUOTED_FIELD"
    THEN IF c = EOL THEN ps
         ELSE IF c = "\"" THEN [ps EXCEPT !.state = "QUOTE_IN_QUOTED_FIELD"]
         ELSE AddChar(ps, c)
    ELSE IF ps.state = "QUOTE_IN_QUOTED_FIELD"
    THEN IF c = "\"" THEN [AddChar(ps, c) EXCEPT !.state = "IN_QUOTED_FIELD"]
         ELSE IF c = "," THEN [SaveField(ps) EXCEPT !.state = "START_FIELD"]
         ELSE IF nl \/ c = EOL THEN EndField(ps, c)
         ELSE [AddChar(ps, c) EXCEPT !.state = "IN_FIELD"]
    ELSE \* EAT_CRNL
         IF nl THEN ps
         ELSE IF c = EOL THEN [ps EXCEPT !.state = "START_RECORD"]
         ELSE [ps EXCEPT !.error = TRUE]

RECURSIVE ParseChars(_, _)
ParseChars(ps, chars) ==
    IF chars = <<>> \/ ps.error THEN ps
    ELSE ParseChars(ParseChar(ps, Head(chars)), Tail(chars))

\* One line is fed to the reader; the record is complete when the reader is
\* back at the start of a record
ParseLine(ps, line) ==
    LET after == ParseChars(ps, Append(line, EOL)) IN
    IF ~after.error /\ after.state = "START_RECORD"
    THEN [after EXCEPT !.records = Append(@, after.fields), !.fields = <<>>]
    ELSE after

RECURSIVE ParseLines(_, _)
ParseLines(ps, lines) ==
    IF lines = <<>> \/ ps.error THEN ps
    ELSE ParseLines(ParseLine(ps, Head(lines)), Tail(lines))

\* csv.reader over the lines: ok is FALSE when the reader raises; at the end
\* of the input an open quoted field or an unfinished field ends the last
\* record
Reader(lines) ==
    LET ps == ParseLines([state |-> "START_RECORD", field |-> <<>>, fields |-> <<>>,
                          records |-> <<>>, error |-> FALSE], lines)
    IN  [ok |-> ~ps.error,
         records |-> IF ~ps.error /\ (ps.field # <<>> \/ ps.state = "IN_QUOTED_FIELD")
                     THEN Append(ps.records, Append(ps.fields, ps.field))
                     ELSE ps.records]

\* The string csv.DictReader yields for a field.  A text of several pieces
\* in a column whose values are single words stays a sequence of pieces.
FieldValue(key, text) ==
    IF key \in {"cluster_name", "module_model"} THEN text
    ELSE IF text = <<>> THEN ""
    ELSE IF Len(text) = 1 THEN text[1] ELSE text

\* csv.DictReader over the records: the first one gives the field names,
\* each later non-empty one a dict.  dict(zip(fieldnames, row)) lets the last
\* column of a repeated name win; every name of a column the record lacks is
\* then set to None, also when an earlier column has the same name (a key
\* whose value is None is absent here); the fields beyond the header go under
\* the key None
DictReader(records) ==
    IF records = <<>> THEN <<>>
    ELSE LET fieldnames == [j \in DOMAIN records[1] |-> FieldValue("", records[1][j])]
             rest == SelectSeq(Tail(records), LAMBDA l : l # <<>>)
             Cols(line) == 1..(IF Len(line) < Len(fieldnames) THEN Len(line)
                               ELSE Len(fieldnames))
             Missing(line) == {fieldnames[j] : j \in (Len(line) + 1)..Len(fieldnames)}
             Named(line) ==
                [key \in {fieldnames[j] : j \in Cols(line)} \ Missing(line) |->
                    FieldValue(key,
                        line[CHOOSE j \in Cols(line) :
                                /\ fieldnames[j] = key
                                /\ \A i \in Cols(line) : fieldnames[i] = key => i <= j])]
         IN  [k \in DOMAIN rest |->
                IF Len(rest[k]) > Len(fieldnames)
                THEN Named(rest[k])
                     @@ (None :> SubSeq(rest[k], Len(fieldnames) + 1, Len(rest[k])))
                ELSE Named(rest[k])]

\* Trigger, _read_csv lines 199-200: what open, the line filter and
\* csv.DictReader make of the written file
ReadReport(text) ==
    LET lines == SplitLines(FileChars(text))
        read == Reader(SelectSeq(lines, LAMBDA l : ~StartsWithHash(l)))
    IN  [readable |-> read.ok, rows |-> DictReader(read.records)]

\* Trigger, _read_csv lines 199-200, on the report the Reporter has written:
\* the Trigger is started on that file (no site filter, no auto-approve) and
\* has reached _start
TriggerOnReport ==
    /\ script = "reporter" /\ pc = "exit" /\ csv_out.written
    /\ script' = "trigger" /\ pc' = "start"
    /\ exited' = FALSE /\ exit_code' = 0 /\ raised' = FALSE
    /\ output' = <<>> /\ logged_in' = TRUE
    /\ file' = ReadReport(csv_out.text)
    /\ SITE_ID' = None /\ AUTO_APPROVE' = FALSE
    /\ data' = <<>>
    /\ UNCHANGED <<api_calls, argv, installed, pages, SCOPE, SCOPE_ID, APPEND_DT,
                   APPEND_TS, invVars, answers, gateways, idx, log, steps_count,
                   steps_total, phases, response, csv_out>>

\* _save_as_csv called on its own, on any list of rows
SaveReport ==
    /\ script = "reporter" /\ pc = "save"
    /\ csv_out' = _save_as_csv(data, SCOPE, SCOPE_ID, APPEND_DT, APPEND_TS)
    /\ pc' = "saved"
    /\ UNCHANGED <<script, exited, exit_code, raised, output, logged_in, api_calls,
                   invVars, envVars, optVars, answers, data, gateways, idx, log,
                   steps_count, steps_total, phases, response>>

---------------------------------------------------------------------------
(* Admin Inviter: org_admins_import.py *)


\* Mutant of RowRaises: only the first two columns are required
RowRaisesTwoColumns(row) == Len(row) < 2

\* lines 48-50: row[0], row[1], row[2] raise IndexError on a short row
RowRaises(row) == Len(row) < 3

\* row[k - 1] of a row that did not raise
Col(row, k) == IF k <= Len(row) THEN row[k] ELSE ""

\* What ends the loop of lines 29-39: y, n or nothing, in either case
SiteAnswers == { <<"y">>, <<"Y">>, <<"n">>, <<"N">>, <<>> }

\* What cli.select_site, resp. org.sites.get, can return: no, one or two sites
SiteLists == { <<>>, <<"S1">>, <<"S1", "S2">> }

\* lines 21-39: the session, the organisation, the role and the scope, all
\* asked before the CSV file is opened.  With y the sites come from
\* cli.select_site; otherwise org.sites.get is called and its first site is
\* used, which raises IndexError when the organisation has no site
InviterSetup ==
    /\ script = "inviter" /\ pc = "setup"
    /\ logged_in' = TRUE
    /\ \E role \in {"admin", "write", "read", "helpdesk"},
          all_sites \in SiteAnswers, site_ids \in SiteLists :
          /\ answers' = Append(answers, all_sites)
          /\ IF Lower(all_sites) = <<"y">>
             THEN /\ privileges' = [k \in DOMAIN site_ids |->
                                       [scope |-> "site", org_id |-> "O1",
                                        site_id |-> site_ids[k], role |-> role]]
                  /\ pc' = "open"
                  /\ UNCHANGED <<api_calls, raised, exited, exit_code>>
             ELSE /\ api_calls' = Append(api_calls,
                        [api |-> "org.sites.get", row |-> 0, email |-> "",
                         first_name |-> "", last_name |-> "", privileges |-> <<>>,
                         raised |-> FALSE])
                  /\ IF site_ids = <<>>
                     THEN /\ raised' = TRUE
                          /\ Exit(1)
                          /\ UNCHANGED privileges
                     ELSE /\ privileges' = <<[scope |-> "org", org_id |-> "O1",
                                              site_id |-> site_ids[1], role |-> role]>>
                          /\ pc' = "open"
                          /\ UNCHANGED <<raised, exited, exit_code>>
    /\ UNCHANGED <<script, output, envVars, optVars, data, gateways, idx, log,
                   steps_count, steps_total, phases, response, csv_out>>

\* lines 43-46: print the name of the file, sys.argv[1], and open it.  Line 43
\* stands before the try, so without an argument its IndexError leaves the
\* script; the except of line 53 catches a failure of open
InviterOpen ==
    /\ script = "inviter" /\ pc = "open"
    /\ IF argv = <<>>
       THEN /\ raised' = TRUE
            /\ Exit(1)
            /\ UNCHANGED output
       ELSE /\ IF file.readable
               THEN Say("Opening CSV file") /\ pc' = "rows"
               ELSE /\ output' = output \o <<"Opening CSV file",
                                             "Error while opening the CSV file... Aborting">>
                    /\ pc' = "admins"
            /\ UNCHANGED <<exited, exit_code, raised>>
    /\ idx' = 0
    /\ UNCHANGED <<script, logged_in, api_calls, envVars,
                   optVars, invVars, answers, data, gateways, log, steps_count,
                   steps_total, phases, response, csv_out>>

\* lines 47-54: one row of the loop; any exception ends the loop in the except
InviterRow ==
    /\ script = "inviter" /\ pc = "rows" /\ idx < Len(file.rows)
    /\ LET row == file.rows[idx + 1] IN
       IF RowRaises(row)
       THEN /\ Say("Error while opening the CSV file... Aborting")
            /\ pc' = "admins"
            /\ UNCHANGED <<api_calls, idx>>
       ELSE \E call_raises \in BOOLEAN :
            /\ api_calls' = Append(api_calls,
                   [api |-> "create_invite", row |-> idx + 1, email |-> Col(row, 1),
                    first_name |-> Col(row, 2), last_name |-> Col(row, 3),
                    privileges |-> privileges, raised |-> call_raises])
            /\ IF call_raises
               THEN /\ output' = output \o <<"row", "Error while opening the CSV file... Aborting">>
                    /\ pc' = "admins"
                    /\ idx' = idx
               ELSE /\ Say("row")
                    /\ pc' = pc
                    /\ idx' = idx + 1
    /\ UNCHANGED <<script, exited, exit_code, raised, logged_in, envVars, optVars,
                   invVars, answers, data, gateways, log, steps_count, steps_total,
                   phases, response, csv_out>>

\* line 47: the reader is exhausted
InviterRowsDone ==
    /\ script = "inviter" /\ pc = "rows" /\ idx = Len(file.rows)
    /\ pc' = "admins"
    /\ UNCHANGED <<script, exited, exit_code, raised, output, logged_in, api_calls,
                   envVars, optVars, runVars, invVars>>

\* lines 56-59: fetch and print the admins, exit(0)
InviterAdmins ==
    /\ script = "inviter" /\ pc = "admins"
    /\ api_calls' = Append(api_calls,
           [api |-> "admins.get", row |-> 0, email |-> "", first_name |-> "",
            last_name |-> "", privileges |-> <<>>, raised |-> FALSE])
    /\ Say("admins")
    /\ Exit(0)
    /\ UNCHANGED <<script, raised, logged_in, envVars, optVars, runVars, invVars>>

---------------------------------------------------------------------------
(* Initial states and specifications *)

ProcInit(s, p, in) ==
    /\ script = s /\ pc = p /\ exited = FALSE /\ exit_code = 0 /\ raised = FALSE
    /\ output = <<>> /\ logged_in = in /\ api_calls = <<>>

NoFile == [readable |-> TRUE, rows |-> <<>>]
NoPages == <<[data |-> <<>>, next |-> 0]>>

OptInit ==
    /\ SITE_ID = None /\ AUTO_APPROVE = FALSE
    /\ SCOPE = None /\ SCOPE_ID = None /\ APPEND_DT = FALSE /\ APPEND_TS = FALSE

RunInit ==
    /\ answers = <<>> /\ idx = 0 /\ log = <<>> /\ steps_count = 0 /\ steps_total = 0
    /\ phases = <<>> /\ response = 0 /\ csv_out = NoReport /\ privileges = <<>>

\* Pages linked by next: page k links to page k + 1, the last one to nothing
Chain(datas) ==
    [k \in DOMAIN datas |->
        [data |-> datas[k], next |-> IF k < Len(datas) THEN k + 1 ELSE 0]]

\* Device stat objects
Module(version, backup, pending) ==
    [serial |-> "SN", mac |-> "aa", model |-> SRX300, version |-> version,
     backup_version |-> backup, pending_version |-> pending]
GW == <<"g", "w">>
Device(id, stat) ==
    [name |-> GW, version |-> "v1", id |-> id, site_id |-> "S1", module_stat |-> stat]
Cluster(id, stat, stat2) ==
    [name |-> GW, version |-> "v1", id |-> id, site_id |-> "S1",
     module_stat |-> stat, module2_stat |-> stat2]

PageDevices ==
    { Device("D1", <<Module("v1", "v1", "")>>),
      Cluster("D2", <<Module("v2", "v1", "")>>, <<Module("v2", "v2", "v3")>>) }

\* The entry point of the Trigger and of the Reporter, with a few report files
\* and device listings behind it
MainFiles ==
    { [readable |-> FALSE, rows |-> <<>>],
      [readable |-> TRUE, rows |-> <<>>],
      [readable |-> TRUE, rows |-> <<Row(EX4, "S1", "True", "D1")>>],
      [readable |-> TRUE, rows |-> <<Row(SRX300, "S1", "True", "D1")>>],
      [readable |-> TRUE, rows |-> <<Row(SRX300, "S2", "True", "D1"),
                                     Row(vSRX, "", "True", "D2")>>],
      [readable |-> TRUE, rows |-> <<Row(SRX300, "S1", "True", "D1"),
                                     [cluster_site_id |-> "S1",
                                      cluster_device_id |-> "D2"]>>] }

MainPages ==
    { Chain(<<<<>>>>),
      Chain(<<<<Device("D1", <<Module("v1", "v1", "")>>)>>>>),
      Chain(<<<<Device("D1", <<Module("v1", "v1", "")>>)>>,
              <<Device("D2", <<>>)>>>>) }

InitMain ==
    /\ \E s \in {"trigger", "reporter"} :
          /\ ProcInit(s, "import", FALSE)
          /\ argv \in SeqsUpTo(IF s = "trigger" THEN TriggerTokens ELSE ReporterTokens,
                               MaxArgs)
          /\ file \in (IF s = "trigger" THEN MainFiles ELSE {NoFile})
          /\ pages \in (IF s = "reporter" THEN MainPages ELSE {NoPages})
    /\ installed \in {NotInstalled} \cup Versions
    /\ OptInit /\ RunInit /\ data = <<>> /\ gateways = <<>>

NextTrigger ==
    \/ TriggerImport \/ TriggerGetopt \/ TriggerCheckVersion \/ TriggerLogin
    \/ TriggerStart \/ RequestApproval \/ ProcessBegin \/ ProcessGateway \/ ProcessEnd

NextReporter ==
    \/ ReporterImport \/ ReporterGetopt \/ ReporterCheckVersion \/ ReporterLogin
    \/ ReporterMenu \/ ReporterScoped \/ OrgList \/ OrgNext \/ SiteList \/ SiteNext
    \/ ReporterProcess

NextMain == NextTrigger \/ NextReporter

SpecMain == InitMain /\ [][NextMain]_vars

\* _start of the Trigger up to the prompt, on every report file within the bounds
Rows ==
    { Row(m, s, n, d) : m \in {SRX300, SR4}, s \in {"S1", "S2"},
                        n \in {"True", "False"}, d \in {"D1", "D2"} }
    \cup { Row(vSRX, "S1", "True", "D1"),
           Row(SRX300, "", "true", "D2"),
           Row(SRX300, "", "True", ""),
           [cluster_site_id |-> "S1", cluster_device_id |-> "D1"] }

InitStart ==
    /\ ProcInit("trigger", "start", TRUE)
    /\ argv = <<>> /\ installed = <<0, 53, 0>> /\ pages = NoPages
    /\ file \in {[readable |-> FALSE, rows |-> <<>>]}
                \cup {[readable |-> TRUE, rows |-> r] : r \in SeqsUpTo(Rows, MaxRows)}
    /\ SITE_ID \in {None, "", "S1"} /\ AUTO_APPROVE = FALSE
    /\ SCOPE = None /\ SCOPE_ID = None /\ APPEND_DT = FALSE /\ APPEND_TS = FALSE
    /\ RunInit /\ data = <<>> /\ gateways = <<>>

SpecStart == InitStart /\ [][TriggerStart]_vars

\* _process_gateways of the Trigger on every candidate list within the bounds.
\* _read_csv keeps one row per device id, so the device ids are distinct.
DeviceName == <<"D1", "D2", "D3", "D4", "D5", "D6", "D7", "D8">>
Candidates(k) ==
    { Row(SRX300, "S1", "True", DeviceName[k]),
      Row(SRX300, "", "True", DeviceName[k]),
      [module_model |-> SRX300, module_need_snapshot |-> "True",
       cluster_device_id |-> DeviceName[k]],
      Row(SRX300, "S1", "True", "") }
RECURSIVE ListsOfLen(_)
ListsOfLen(n) ==
    IF n = 0 THEN {<<>>}
    ELSE { Append(c, x) : c \in ListsOfLen(n - 1), x \in Candidates(n) }
CandidateLists ==
    { c \in UNION {ListsOfLen(n) : n \in 1..MaxCand} :
        \A j, k \in DOMAIN c : j # k =>
            Get(c[j], "cluster_device_id") # Get(c[k], "cluster_device_id") }

InitBatch ==
    /\ ProcInit("trigger", "process", TRUE)
    /\ argv = <<>> /\ installed = <<0, 53, 0>> /\ pages = NoPages /\ file = NoFile
    /\ OptInit /\ RunInit
    /\ data \in CandidateLists /\ gateways = <<>>

SpecBatch == InitBatch /\ [][ProcessBegin \/ ProcessGateway \/ ProcessEnd]_vars

\* The Reporter's retrieval of the devices on every chain of pages within the bounds
InitPages ==
    /\ ProcInit("reporter", "get_gateways", TRUE)
    /\ argv = <<>> /\ installed = <<0, 53, 0>> /\ file = NoFile
    /\ pages \in {Chain(d) : d \in SeqsUpTo(SeqsUpTo(PageDevices, MaxPageLen), MaxPages)
                                   \ {<<>>}}
    /\ SITE_ID = None /\ AUTO_APPROVE = FALSE
    /\ \E s \in {"org", "site"} : SCOPE = s /\ SCOPE_ID = (IF s = "org" THEN "O1" ELSE "S1")
    /\ APPEND_DT = FALSE /\ APPEND_TS = FALSE
    /\ RunInit /\ data = <<>> /\ gateways = <<>>

SpecPages ==
    InitPages /\ [][OrgList \/ OrgNext \/ SiteList \/ SiteNext \/ ReporterProcess]_vars

\* The Reporter's processing of the devices, on every module record
Modules ==
    { [serial |-> "SN", mac |-> "aa", model |-> SRX300] @@ v @@ b @@ p :
        v \in {EmptyDict} \cup {[version |-> x] : x \in {"v1", "v2"}},
        b \in {EmptyDict} \cup {[backup_version |-> x] : x \in {None, "v1"}},
        p \in {EmptyDict} \cup {[pending_version |-> x] : x \in {None, "", "v2"}} }
ModuleDevices ==
    { Device("D1", <<m>>) : m \in Modules }
    \cup { [name |-> GW, version |-> "v1", id |-> "D2", site_id |-> "S2"],
           Device("D3", <<>>),
           Cluster("D4", <<Module("v1", "v1", "")>>, <<Module("v1", "v2", "v2")>>),
           Cluster("D5", <<Module("v1", "v1", "")>>, <<>>) }

InitModules ==
    /\ ProcInit("reporter", "process", TRUE)
    /\ argv = <<>> /\ installed = <<0, 53, 0>> /\ file = NoFile /\ pages = NoPages
    /\ SITE_ID = None /\ AUTO_APPROVE = FALSE
    /\ SCOPE = "org" /\ SCOPE_ID = "O1" /\ APPEND_DT = FALSE /\ APPEND_TS = FALSE
    /\ RunInit /\ data = <<>>
    /\ gateways \in SeqsUpTo(ModuleDevices, MaxDevs)

SpecModules == InitModules /\ [][ReporterProcess]_vars

\* _save_as_csv on its own: rows with different key sets, every scope and
\* every file name flag
SaveRows ==
    { EmptyDict,
      [cluster_name |-> GW, module_model |-> SRX300, module_need_snapshot |-> TRUE],
      [cluster_name |-> NoneChars, cluster_device_id |-> "D1", module_model |-> SRX300],
      [cluster_device_id |-> "D2", cluster_site_id |-> None,
       module_need_snapshot |-> FALSE],
      [cluster_name |-> GW, module_serial |-> "SN"],
      _process_module(GW, "v1", "D1", "S1", Module("v2", "v1", "")) }

InitSave ==
    /\ ProcInit("reporter", "save", TRUE)
    /\ argv = <<>> /\ installed = <<0, 53, 0>> /\ file = NoFile /\ pages = NoPages
    /\ SITE_ID = None /\ AUTO_APPROVE = FALSE
    /\ SCOPE \in {"org", "site"} /\ SCOPE_ID = "I1"
    /\ APPEND_DT \in BOOLEAN /\ APPEND_TS \in BOOLEAN
    /\ RunInit /\ gateways = <<>>
    /\ data \in SeqsUpTo(SaveRows, MaxRows)

SpecSave == InitSave /\ [][SaveReport]_vars

\* The Reporter processes a device list and writes the report, then the
\* Trigger reads that report
HashGW == <<"#", "g", "w">>
\* A name with a line end followed by `#`, a name with a comma, a name with
\* a quote
LinesGW == <<"a", "\n", "#", "b">>
CommaGW == <<"a", ",", "b">>
QuoteGW == <<"a", "\"", "b">>
RoundDevice(n, i, mo, b) ==
    [name |-> n, version |-> "v1", id |-> i, site_id |-> "S1",
     module_stat |-> <<[serial |-> "SN", mac |-> "aa", model |-> mo,
                        version |-> "v1", backup_version |-> b,
                        pending_version |-> ""]>>]
RoundDevices ==
    { RoundDevice(GW, i, mo, b) :
        i \in {"D1", "D2"}, mo \in {SRX300, EX4}, b \in {"v1", "v2"} }
    \cup { RoundDevice(n, "D1", SRX300, "v2") :
              n \in {HashGW, LinesGW, CommaGW, QuoteGW} }
    \cup { RoundDevice(HashGW, "D2", EX4, "v1"),
           Cluster("D3", <<Module("v1", "v2", "")>>, <<Module("v1", "v2", "")>>),
           [version |-> "v1", site_id |-> "S1",
            module_stat |-> <<[version |-> "v1"]>>] }

InitRound ==
    /\ ProcInit("reporter", "process", TRUE)
    /\ argv = <<>> /\ installed = <<0, 53, 0>> /\ file = NoFile /\ pages = NoPages
    /\ SITE_ID = None /\ AUTO_APPROVE = FALSE
    /\ SCOPE = "org" /\ SCOPE_ID = "O1" /\ APPEND_DT = FALSE /\ APPEND_TS = FALSE
    /\ RunInit /\ data = <<>>
    /\ gateways \in SeqsUpTo(RoundDevices, MaxDevs)

NextRound == ReporterProcess \/ TriggerOnReport \/ TriggerStart

SpecRound == InitRound /\ [][NextRound]_vars

\* The Admin Inviter on every CSV file within the bounds
InviteRows ==
    { <<>>, <<"e1">>, <<"e1", "f1">>, <<"e1", "f1", "l1">>, <<"e2", "f2", "l2">>,
      <<"e3", "f3", "l3", "x">> }

\* The path given as sys.argv[1]
InviteFile == <<"a", ".", "c", "s", "v">>

InitInviter ==
    /\ ProcInit("inviter", "setup", FALSE)
    /\ argv \in {<<>>, <<InviteFile>>} /\ installed = <<0, 53, 0>> /\ pages = NoPages
    /\ file \in {[readable |-> FALSE, rows |-> <<>>]}
                \cup {[readable |-> TRUE, rows |-> r] : r \in SeqsUpTo(InviteRows, MaxInvRows)}
    /\ OptInit /\ RunInit /\ data = <<>> /\ gateways = <<>>

NextInviter ==
    InviterSetup \/ InviterOpen \/ InviterRow \/ InviterRowsDone \/ InviterAdmins

SpecInviter == InitInviter /\ [][NextInviter]_vars

---------------------------------------------------------------------------
(* Claims *)

IsPrefix(p, q) == Len(p) <= Len(q) /\ SubSeq(q, 1, Len(p)) = p
Count(seq, P(_)) == Cardinality({k \in DOMAIN seq : P(seq[k])})
\* The k-th smallest element of a set of numbers
Kth(S, k) == CHOOSE i \in S : Cardinality({j \in S : j < i}) = k - 1

ReadDone == script = "trigger" /\ pc \notin {"import", "getopt", "check_version",
                                             "login", "start"}
ReadCompleted == ReadDone /\ log # <<>> /\ log[1].result = "Success"

\* The tests of the claim on one row of the report
RowPasses(row) ==
    /\ "module_model" \in DOMAIN row
    /\ Contains(row.module_model, <<"S", "R", "X">>)
    /\ Get(row, "module_need_snapshot") = "True"
    /\ (SITE_ID \in {None, ""} \/ Get(row, "cluster_site_id") = SITE_ID)
SelectedIndexes ==
    { i \in DOMAIN file.rows :
        /\ RowPasses(file.rows[i])
        /\ \A j \in 1..(i - 1) :
              ~(RowPasses(file.rows[j])
                /\ Get(file.rows[j], "cluster_device_id")
                   = Get(file.rows[i], "cluster_device_id")) }

\* C1: once _read_csv has read the whole file, the selected rows are exactly
\* the rows that contain "SRX" in module_model, have module_need_snapshot
\* "True", match the site filter when one is given, and are the first row of
\* their device id to do so; they are kept in file order.
C1_Selection ==
    ReadCompleted =>
        /\ Len(data) = Cardinality(SelectedIndexes)
        /\ \A k \in DOMAIN data : data[k] = file.rows[Kth(SelectedIndexes, k)]

\* C1 witness: a site filter is set, two passing rows share a device id, and
\* only the first of them is among the two rows selected.
C1_Witness ==
    /\ ReadCompleted /\ SITE_ID = "S1" /\ Len(file.rows) = 3 /\ Len(data) = 2
    /\ RowPasses(file.rows[1]) /\ RowPasses(file.rows[2]) /\ RowPasses(file.rows[3])
    /\ file.rows[1] # file.rows[2]
    /\ file.rows[1].cluster_device_id = file.rows[2].cluster_device_id

IsSuccess(l) == l.result = "Success"
IsFailure(l) == l.result = "Failure"
DeviceOf(g) == Get(g, "cluster_device_id")

\* C2: the batch never raises; the candidates are logged one by one in list
\* order, each exactly once as Success or Failure, each with at most one
\* snapshot call; at the end successes + failures = number of candidates.
C2_Batch ==
    (script = "trigger" /\ pc \in {"process_loop", "exit"}) =>
        /\ ~raised
        /\ Len(log) = idx /\ idx <= Len(gateways)
        /\ \A k \in DOMAIN log :
              /\ log[k].device = DeviceOf(gateways[k])
              /\ log[k].result \in {"Success", "Failure"}
        /\ \A j, k \in DOMAIN api_calls : j # k =>
              api_calls[j].device_id # api_calls[k].device_id
        /\ Len(api_calls) <= idx
        /\ steps_count = idx
        /\ exited =>
              /\ exit_code = 0
              /\ idx = Len(gateways)
              /\ Count(log, IsSuccess) + Count(log, IsFailure) = Len(gateways)

\* C2 witness: 5 candidates, the calls of candidates 2 and 4 raise, the others
\* return 200: the run ends with 3 successes and 2 failures.
C2_Witness ==
    /\ exited /\ exit_code = 0 /\ Len(gateways) = 5 /\ Len(api_calls) = 5
    /\ \A k \in 1..5 : api_calls[k].resp.raised = (k \in {2, 4})
    /\ \A k \in {1, 3, 5} : api_calls[k].resp.status_code = 200
    /\ Count(log, IsSuccess) = 3 /\ Count(log, IsFailure) = 2

TriggerPhaseOrders ==
    { <<"ReadCSV", "Done">>,
      <<"ReadCSV", "Confirm", "Done">>,
      <<"ReadCSV", "Confirm", "ProcessEach", "Done">>,
      <<"ReadCSV", "ProcessEach", "Done">> }
Consent == { <<"y">>, <<"Y">> }

\* C3: without auto-approve no snapshot call is issued before the user has
\* answered "y" or "Y"; any other answer ends the run with exit code 0 and no
\* call; with auto-approve there is no prompt; the phases follow ReadCSV,
\* (Done), Confirm unless auto-approve, ProcessEach, Done.
C3_Approval ==
    script = "trigger" =>
        /\ (api_calls # <<>> /\ ~AUTO_APPROVE) =>
              (Len(answers) = 1 /\ answers[1] \in Consent)
        /\ (answers # <<>> /\ answers[1] \notin Consent) =>
              (exited /\ exit_code = 0 /\ api_calls = <<>>)
        /\ AUTO_APPROVE => answers = <<>>
        /\ \E order \in TriggerPhaseOrders : IsPrefix(phases, order)
        /\ AUTO_APPROVE => "Confirm" \notin Range(phases)
        /\ ("ProcessEach" \in Range(phases) /\ ~AUTO_APPROVE) =>
              "Confirm" \in Range(phases)

\* C3 witness: no auto-approve, the user typed "Y", and a snapshot call went out.
C3_Witness ==
    /\ script = "trigger" /\ ~AUTO_APPROVE /\ answers = << <<"Y">> >>
    /\ api_calls # <<>> /\ phases = <<"ReadCSV", "Confirm", "ProcessEach">>

Prompt == "Do you want to continue (y/N)? "
Compliant == "All the gateways are compliant... Exiting..."

\* C4: when the read succeeds and selects nothing, the run prints the
\* compliance message and exits 0, with no prompt and no snapshot call.
C4_Empty ==
    (ReadCompleted /\ data = <<>>) =>
        /\ exited /\ exit_code = 0
        /\ Compliant \in Range(output)
        /\ Prompt \notin Range(output) /\ answers = <<>>
        /\ api_calls = <<>>

\* C4 witness: a readable report with rows, none selected, auto-approve set.
C4_Witness ==
    /\ ReadCompleted /\ data = <<>> /\ file.rows # <<>> /\ AUTO_APPROVE /\ exited

\* C5: a call that returns is logged Success iff its status code is 200; any
\* other status, and any exception, is logged Failure; the loop goes on.
C5_Status ==
    (script = "trigger" /\ pc \in {"process_loop", "exit"}) =>
        /\ \A c \in Range(api_calls) :
              \E k \in DOMAIN log :
                 /\ log[k].device = c.device_id
                 /\ log[k].result =
                       (IF ~c.resp.raised /\ c.resp.status_code = 200
                        THEN "Success" ELSE "Failure")
        /\ exited => idx = Len(gateways)

\* C5 witness: a call returned 201, was logged Failure, and a later candidate
\* was still called.
C5_Witness ==
    /\ Len(api_calls) >= 2 /\ Len(log) >= 2
    /\ ~api_calls[1].resp.raised /\ api_calls[1].resp.status_code = 201
    /\ log[1].result = "Failure"

NoId(v) == v \in {None, ""}
LacksIds(g) == NoId(Get(g, "cluster_site_id")) \/ NoId(Get(g, "cluster_device_id"))

\* C6: a candidate without a site id or a device id is logged as a Failure,
\* no snapshot call is issued for it, nothing is raised, and the candidates
\* after it are still processed.
C6_MissingIds ==
    (script = "trigger" /\ pc \in {"process_loop", "exit"}) =>
        /\ ~raised
        /\ \A k \in 1..idx :
              LacksIds(gateways[k]) =>
                 /\ log[k].result = "Failure"
                 /\ \A c \in Range(api_calls) :
                       c.device_id # DeviceOf(gateways[k])
        /\ exited => (exit_code = 0 /\ Len(log) = Len(gateways))

\* C6 witness: the first candidate has no site id, the second an empty one,
\* the third is complete and was called with status 200.
C6_Witness ==
    /\ exited /\ Len(gateways) = 3
    /\ "cluster_site_id" \notin DOMAIN gateways[1]
    /\ Get(gateways[2], "cluster_site_id") = ""
    /\ ~LacksIds(gateways[3])
    /\ Len(api_calls) = 1 /\ api_calls[1].device_id = DeviceOf(gateways[3])
    /\ log[3].result = "Success"

NonEmptyString(v) == v \notin {None, ""}

\* C7: in every report row module_need_snapshot is true iff the version
\* differs from the backup version, and module_need_reboot is true iff the
\* pending version is a non-empty string (false when it is absent, null or "").
C7_Flags ==
    \A k \in DOMAIN data :
        (script = "reporter") =>
            /\ data[k].module_need_snapshot =
                  (data[k].module_version # data[k].module_backup_version)
            /\ data[k].module_need_reboot =
                  NonEmptyString(data[k].module_pending_version)

RECURSIVE SumLen(_)
SumLen(ps) == IF ps = <<>> THEN 0 ELSE Len(Head(ps).data) + SumLen(Tail(ps))
PageData == [k \in DOMAIN pages |-> pages[k].data]

\* C8: when the retrieval returns, every page has been fetched once, the
\* device list is the concatenation of the pages in page order, and its
\* length is the sum of the page lengths.
C8_Pagination ==
    (script = "reporter" /\ pc = "process") =>
        /\ gateways = Flatten(PageData)
        /\ Len(gateways) = SumLen(pages)
        /\ Len(api_calls) = Len(pages)
        /\ \A k \in DOMAIN api_calls : api_calls[k].page = k

\* C8 witness: three pages, the second one empty, the first and the last not,
\* retrieved for a site.
C8_Witness ==
    /\ script = "reporter" /\ pc = "process" /\ SCOPE = "site"
    /\ Len(pages) = 3 /\ pages[1].data # <<>> /\ pages[2].data = <<>>
    /\ Len(pages[3].data) = 2 /\ Len(gateways) >= 3

\* (major, minor, patch) order of two versions
VersionOlder(v, w) ==
    \/ v[1] < w[1]
    \/ v[1] = w[1] /\ v[2] < w[2]
    \/ v[1] = w[1] /\ v[2] = w[2] /\ v[3] < w[3]
ParsedArgv ==
    IF script = "trigger" THEN getopt(argv, TriggerShortOpts, TriggerLongOpts)
    ELSE getopt(argv, ReporterShortOpts, ReporterLongOpts)
ReporterParsed ==
    ReporterOptions(ParsedArgv.opts,
        [usage |-> FALSE, error |-> FALSE, SCOPE |-> None, SCOPE_ID |-> None,
         APPEND_DT |-> FALSE, APPEND_TS |-> FALSE])
MalformedOptions ==
    ParsedArgv.error \/ (script = "reporter" /\ ReporterParsed.error)
HelpAsked ==
    /\ ~ParsedArgv.error
    /\ \E k \in DOMAIN ParsedArgv.opts : OptIs(ParsedArgv.opts[k][1], "h", "help")
FatalSetupError ==
    \/ installed = NotInstalled
    \/ MalformedOptions
    \/ installed # NotInstalled /\ VersionOlder(installed, MISTAPI_MIN_VERSION(script))

\* C9: in the Trigger and the Reporter a missing dependency, an older client
\* library or malformed options end the process with a non-zero exit code
\* before any login or API call.
C9_FatalSetup ==
    (script \in {"trigger", "reporter"} /\ FatalSetupError /\ ~HelpAsked) =>
        /\ ~logged_in /\ api_calls = <<>>
        /\ pc \in {"import", "getopt", "check_version", "exit"}
        /\ exited => exit_code # 0

Abort == "Error while opening the CSV file... Aborting"
ShortRows == {k \in DOMAIN file.rows : Len(file.rows[k]) < 3}
FirstShort == CHOOSE n \in ShortRows : \A m \in ShortRows : n <= m
Invites == SelectSeq(api_calls, LAMBDA c : c.api = "create_invite")
\* Neither the set-up of lines 21-39 nor line 43 has ended the run
InviteLoopReached == ~raised

\* C10: when some row lacks column 3, with N the first such row, no invite
\* is issued for row N or a later row; the invites go out in row order from
\* row 1 and, unless an invite call itself raises, stop exactly before row N;
\* the run prints the abort message once and nothing else but the rows and
\* the admin list, which it still fetches and prints before exit(0).
C10_ShortRow ==
    (script = "inviter" /\ InviteLoopReached /\ file.readable /\ ShortRows # {}) =>
        /\ \A k \in DOMAIN Invites : Invites[k].row = k /\ k < FirstShort
        /\ pc \in {"admins", "exit"} =>
              /\ Abort \in Range(output)
              /\ (\A k \in DOMAIN Invites : ~Invites[k].raised) =>
                    Len(Invites) = FirstShort - 1
        /\ exited =>
              /\ exit_code = 0
              /\ api_calls[Len(api_calls)].api = "admins.get"
              /\ output = <<"Opening CSV file">> \o [k \in DOMAIN Invites |-> "row"]
                          \o <<Abort, "admins">>

\* C10 witness: the third row is the first short one, two invites went out,
\* the run aborted and still printed the admin list.
C10_Witness ==
    /\ script = "inviter" /\ exited /\ file.readable /\ ShortRows = {3}
    /\ Len(Invites) = 2 /\ ~Invites[2].raised
    /\ Abort \in Range(output) /\ output[Len(output)] = "admins"

---------------------------------------------------------------------------
(* C11 *)

\* The read raises: the file cannot be opened, or some row has no
\* module_model column
ReadRaises ==
    ~file.readable \/ \E k \in DOMAIN file.rows : "module_model" \notin DOMAIN file.rows[k]

\* _read_csv has been called and has returned or has ended the run
ReadTried == ReadDone /\ log # <<>>

Snapshots == SelectSeq(api_calls, LAMBDA c : c.api = "createSiteDeviceSnapshot")

\* C11: when the report file cannot be read, or reading or filtering its rows
\* raises (a row without a module_model column), the Backup Trigger exits
\* with code 1 without asking for confirmation and without any snapshot call,
\* and no partial candidate list is kept or processed.
C11_ReadFailure ==
    (ReadTried /\ ReadRaises) =>
        /\ exited /\ exit_code = 1
        /\ Prompt \notin Range(output)
        /\ answers = <<>>
        /\ Snapshots = <<>>
        /\ data = <<>> /\ gateways = <<>>
        /\ log = <<[message |-> "Reading CSV Report", device |-> None,
                    result |-> "Failure"]>>

\* A candidate row had been collected when a later row raised
C11_Witness ==
    /\ ReadTried /\ file.readable /\ Len(file.rows) = 2
    /\ RowPasses(file.rows[1]) /\ SITE_ID \in {None, "S1"}
    /\ "module_model" \notin DOMAIN file.rows[2]
    /\ exited /\ exit_code = 1

---------------------------------------------------------------------------
(* C12 *)

Saved == script = "reporter" /\ pc = "saved"

\* The column names on the second line of the written file
WrittenHeader == [j \in DOMAIN csv_out.text[2] |-> csv_out.text[2][j][1]]

\* The first data row that has the key, and the key's place in a row
FirstRowWith(key) == CHOOSE k \in DOMAIN data :
    key \in DOMAIN data[k] /\ \A i \in 1..(k - 1) : key \notin DOMAIN data[i]
KeyPlace(key) == CHOOSE n \in DOMAIN RowKeys : RowKeys[n] = key

\* C12: the written file has a `#` comment naming the scope as its first
\* line, then the header line, which lists the keys of all the data rows in
\* first-seen order without repeats, then one line per data row in input
\* order, each with the row's values in header order and an empty field for a
\* key the row lacks.
C12_FileLayout ==
    Saved =>
        LET text == csv_out.text
            hdr == WrittenHeader
        IN  /\ csv_out.written
            /\ Len(text) = 2 + Len(data)
            /\ Len(text[1]) = 1
            /\ text[1][1][1] = "#"
            /\ {SCOPE, SCOPE_ID} \subseteq Range(text[1][1])
            /\ \A j \in DOMAIN text[2] : Len(text[2][j]) = 1
            /\ Range(hdr) = UNION {DOMAIN data[k] : k \in DOMAIN data}
            /\ \A i, j \in DOMAIN hdr : i < j =>
                  /\ hdr[i] # hdr[j]
                  /\ \/ FirstRowWith(hdr[i]) < FirstRowWith(hdr[j])
                     \/ /\ FirstRowWith(hdr[i]) = FirstRowWith(hdr[j])
                        /\ KeyPlace(hdr[i]) < KeyPlace(hdr[j])
            /\ \A k \in DOMAIN data :
                  /\ Len(text[2 + k]) = Len(hdr)
                  /\ \A j \in DOMAIN hdr :
                        text[2 + k][j] =
                            IF hdr[j] \in DOMAIN data[k]
                            THEN CsvField(hdr[j], data[k][hdr[j]])
                            ELSE <<>>

\* A later row brings a key the first row lacks, and the first row gets an
\* empty field for it
C12_Witness ==
    /\ Saved /\ Len(data) >= 2
    /\ \E key \in DOMAIN data[2] :
          /\ key \notin DOMAIN data[1]
          /\ \E j \in DOMAIN WrittenHeader :
                /\ WrittenHeader[j] = key
                /\ csv_out.text[3][j] = <<>>
                /\ \E i \in 1..(j - 1) : KeyPlace(WrittenHeader[i]) > KeyPlace(key)

---------------------------------------------------------------------------
(* C13 *)

\* The two documented ways of passing the site id S1
SiteIdForms ==
    { << <<"-", "s">>, <<"S", "1">> >>,
      << <<"-", "-", "s", "i", "t", "e", "_", "i", "d", "=", "S", "1">> >> }

\* The dependency is installed in a version the script accepts
Installed == installed # NotInstalled /\ ~VersionTooOld(script, installed)

\* C13: in the Trigger and the Reporter, a site id passed as `-s <id>` or as
\* `--site_id=<id>` becomes the site filter, resp. the site scope, and the
\* run goes on to the login with that value.
C13_SiteOption ==
    (argv \in SiteIdForms /\ Installed /\ pc \notin {"import", "getopt"}) =>
        /\ script = "trigger" => SITE_ID = "S1"
        /\ script = "reporter" => (SCOPE = "site" /\ SCOPE_ID = "S1")
        /\ exited => logged_in

---------------------------------------------------------------------------
(* C14 *)

Given(short, long) ==
    \E k \in DOMAIN ParsedArgv.opts : OptIs(ParsedArgv.opts[k][1], short, long)

\* The command line is well formed and names both options of a pair
BothGiven ==
    /\ ~ParsedArgv.error
    /\ \/ Given("o", "org_id") /\ Given("s", "site_id")
       \/ Given("d", "datetime") /\ Given("t", "timestamp")

\* C14: in the Reporter the org and site options exclude each other, and so
\* do the datetime and timestamp options, in either order: _start is only
\* reached with at most one scope option given and never with APPEND_DT and
\* APPEND_TS both true, and a command line with both options of a pair ends
\* in the usage text, with no API call and no report file.
C14_Exclusive ==
    script = "reporter" =>
        /\ ~(APPEND_DT /\ APPEND_TS)
        /\ logged_in => ~BothGiven
        /\ (BothGiven /\ pc \notin {"import", "getopt"}) =>
              /\ exited /\ ~logged_in
              /\ api_calls = <<>>
              /\ ~csv_out.written
              /\ installed # NotInstalled => "usage" \in Range(output)

\* The site option followed by the org option has ended the run in usage
C14_Witness ==
    /\ script = "reporter" /\ exited
    /\ argv = << <<"-", "s", "S", "1">>,
                <<"-", "-", "o", "r", "g", "_", "i", "d", "=", "O", "1">> >>
    /\ output = <<"usage", "critical: Invalid Parameters">>
    /\ ~logged_in /\ ~csv_out.written

---------------------------------------------------------------------------
(* C15 *)

\* The device reports a second module
HasSecond(g) == "module2_stat" \in DOMAIN g /\ g.module2_stat # <<>>

\* The place in the report of the first row of device k
FirstRowOf(k) ==
    k + Cardinality({j \in 1..(k - 1) : HasSecond(gateways[j])})

RowIsOf(row, g) ==
    /\ row.cluster_name = GetDefault(g, "name", NoneChars)
    /\ row.cluster_version = Get(g, "version")
    /\ row.cluster_device_id = Get(g, "id")
    /\ row.cluster_site_id = Get(g, "site_id")

\* C15: in the Reporter every device gives one row for its primary module and
\* one more exactly when it has a non-empty module2_stat, in device order, each
\* row carrying the device's name, version, id and site id; and no device,
\* whatever its shape, makes _process_gateways fail.
C15_Rows ==
    (script = "reporter" /\ exited) =>
        /\ ~raised
        /\ Len(data) = FirstRowOf(Len(gateways) + 1) - 1
        /\ \A k \in DOMAIN gateways :
              /\ RowIsOf(data[FirstRowOf(k)], gateways[k])
              /\ HasSecond(gateways[k]) => RowIsOf(data[FirstRowOf(k) + 1], gateways[k])

---------------------------------------------------------------------------
(* C16 *)

\* The rows the Reporter wrote, and a written row as the Trigger should read it
WrittenRows == ReportRows(gateways, <<>>).data
AsRead(row) == [key \in DOMAIN row |-> FieldValue(key, CsvField(key, row[key]))]

Wanted(row) ==
    Contains(row.module_model, <<"S", "R", "X">>) /\ row.module_need_snapshot = TRUE
WantedIndexes ==
    { i \in DOMAIN WrittenRows :
        /\ Wanted(WrittenRows[i])
        /\ \A j \in 1..(i - 1) :
              ~(Wanted(WrittenRows[j])
                /\ AsRead(WrittenRows[j]).cluster_device_id
                   = AsRead(WrittenRows[i]).cluster_device_id) }

\* The Trigger has read the report the Reporter wrote
ReadBack == script = "trigger" /\ csv_out.written /\ log # <<>>

\* C16: when the Trigger reads, without a site filter, a report the Reporter
\* wrote, it skips the leading comment line only and sees every data row; it
\* selects exactly the rows whose model contains "SRX" and whose
\* module_need_snapshot was true, one per device id, and reads that flag back
\* as the string "True".  No data row is lost or taken for a comment.
C16_RoundTrip ==
    ReadBack =>
        /\ log[1].result = "Success"
        /\ Len(file.rows) = Len(WrittenRows)
        /\ \A k \in DOMAIN file.rows : file.rows[k] = AsRead(WrittenRows[k])
        /\ Len(data) = Cardinality(WantedIndexes)
        /\ \A k \in DOMAIN data :
              /\ data[k] = AsRead(WrittenRows[Kth(WantedIndexes, k)])
              /\ data[k].module_need_snapshot = "True"

====
